---- MODULE Spec2Model ----
(***************************************************************************)
(* Model of the Telegram ingestion core of finance-tracker-backend:        *)
(*   app/api/webhooks.py          telegram_webhook, get_or_create_user     *)
(*   app/services/text_parser.py  TextTransactionParser.parse              *)
(*   app/services/gemini_parser.py GeminiParser and its helpers            *)
(*   app/services/parser_service.py get_parser                             *)
(*   app/services/telegram_service.py TelegramService                      *)
(* Python strings are sequences of one-character strings; Python values    *)
(* are records [t, n, e, s] (type tag, digits, fraction digits, string).   *)
(***************************************************************************)
EXTENDS Integers, Sequences, FiniteSets, TLC

(***************************************************************************)
(* Bounds of the model.                                                    *)
(***************************************************************************)
NumTasks == 2

MaxEvents == 2

(***************************************************************************)
(* Python values.                                                          *)
(***************************************************************************)
PyNone == [t |-> "null", n |-> 0, e |-> 0, s |-> <<>>]

PyInt(x) == [t |-> "int", n |-> x, e |-> 0, s |-> <<>>]

\* a float with the decimal digits n and e digits after the point: n / 10^e
PyFloat(x, f) == [t |-> "float", n |-> x, e |-> f, s |-> <<>>]

PyStr(chars) == [t |-> "str", n |-> 0, e |-> 0, s |-> chars]

PyTrue == [t |-> "bool", n |-> 1, e |-> 0, s |-> <<>>]

\* Python truthiness of a value (`not x`, `if x:`)
Truthy(v) ==
    CASE v.t = "null" -> FALSE
      [] v.t = "int" -> v.n # 0
      [] v.t = "float" -> v.n # 0
      [] v.t = "bool" -> v.n # 0
      [] OTHER -> v.s # <<>>

\* dict.get(key, default)
DictGet(d, key, default) == IF key \in DOMAIN d THEN d[key] ELSE default

SetMax(S) == CHOOSE x \in S : \A y \in S : y <= x

SetMin(S) == CHOOSE x \in S : \A y \in S : x <= y

Min2(a, b) == IF a <= b THEN a ELSE b

(***************************************************************************)
(* Characters and string helpers (str.strip, str.lower, str.startswith).   *)
(***************************************************************************)
DigitChars == <<"0", "1", "2", "3", "4", "5", "6", "7", "8", "9">>

Digit == {DigitChars[i] : i \in 1..10}

WS == {" ", "\t", "\n"}

UpperChars == <<"A", "B", "C", "D", "E", "F", "G", "H", "I", "J", "K", "L", "M",
                "N", "O", "P", "Q", "R", "S", "T", "U", "V", "W", "X", "Y", "Z">>

LowerChars == <<"a", "b", "c", "d", "e", "f", "g", "h", "i", "j", "k", "l", "m",
                "n", "o", "p", "q", "r", "s", "t", "u", "v", "w", "x", "y", "z">>

LowerChar(c) ==
    IF \E i \in 1..26 : UpperChars[i] = c
    THEN LowerChars[CHOOSE i \in 1..26 : UpperChars[i] = c]
    ELSE c

Lower(s) == [i \in 1..Len(s) |-> LowerChar(s[i])]

Strip(s) ==
    LET idx == {i \in 1..Len(s) : s[i] \notin WS}
    IN IF idx = {} THEN <<>> ELSE SubSeq(s, SetMin(idx), SetMax(idx))

StartsWith(s, p) == Len(p) <= Len(s) /\ SubSeq(s, 1, Len(p)) = p

\* s[k:] for a 0-based Python index k
From(s, k) == SubSeq(s, k + 1, Len(s))

\* p occurs in s at the 1-based position i
OccursAt(s, i, p) == i + Len(p) - 1 <= Len(s) /\ SubSeq(s, i, i + Len(p) - 1) = p

\* the length of the longest run of characters of C that starts at position i
Run(s, i, C) ==
    SetMax({k \in 0..(IF i > Len(s) THEN 0 ELSE Len(s) - i + 1) :
               \A j \in i..(i + k - 1) : s[j] \in C})

DigitValue(c) == (CHOOSE i \in 1..10 : DigitChars[i] = c) - 1

RECURSIVE DigitsValue(_)
DigitsValue(s) ==
    IF s = <<>> THEN 0
    ELSE 10 * DigitsValue(SubSeq(s, 1, Len(s) - 1)) + DigitValue(s[Len(s)])

RECURSIVE Normalize(_, _)
\* drop the trailing zeros of the fraction: 15.50 is the float 15.5
Normalize(x, f) ==
    IF f > 0 /\ x % 10 = 0 THEN Normalize(x \div 10, f - 1) ELSE PyFloat(x, f)

\* float(g) for a group g matched by \d+\.?\d*
Float(g) ==
    LET dots == {i \in 1..Len(g) : g[i] = "."}
    IN IF dots = {} THEN PyFloat(DigitsValue(g), 0)
       ELSE LET d == SetMin(dots)
            IN Normalize(DigitsValue(SubSeq(g, 1, d - 1) \o From(g, d)), Len(g) - d)

RECURSIVE NatStr(_)
NatStr(x) ==
    IF x < 10 THEN <<DigitChars[x + 1]>>
    ELSE NatStr(x \div 10) \o <<DigitChars[(x % 10) + 1]>>

RECURSIVE Pow10(_)
Pow10(k) == IF k = 0 THEN 1 ELSE 10 * Pow10(k - 1)

RECURSIVE ZeroPad(_, _)
ZeroPad(s, k) == IF Len(s) >= k THEN s ELSE ZeroPad(<<"0">> \o s, k)

\* str(v), as webhooks.py applies it to the parsed amount
Str(v) ==
    LET mag == IF v.n < 0 THEN -v.n ELSE v.n
        sign == IF v.n < 0 THEN <<"-">> ELSE <<>>
    IN CASE v.t = "null" -> <<"N", "o", "n", "e">>
         [] v.t = "str" -> v.s
         [] v.t = "int" -> sign \o NatStr(mag)
         [] v.t = "bool" -> IF v.n # 0 THEN <<"T", "r", "u", "e">>
                            ELSE <<"F", "a", "l", "s", "e">>
         [] OTHER ->
              sign \o NatStr(mag \div Pow10(v.e)) \o <<".">>
                   \o (IF v.e = 0 THEN <<"0">>
                       ELSE ZeroPad(NatStr(mag % Pow10(v.e)), v.e))

(***************************************************************************)
(* TextTransactionParser.parse (text_parser.py)                            *)
(***************************************************************************)
prefixes == << <<"a", "d", "d">>, <<"s", "p", "e", "n", "t">>,
               <<"s", "p", "e", "n", "d">>, <<"p", "a", "i", "d">>,
               <<"e", "x", "p", "e", "n", "s", "e">>, <<"e", "x", "p">> >>

connectors == << <<"a", "s">>, <<"f", "o", "r">>, <<"o", "n">>, <<"a", "t">>,
                 <<"t", "o">>, <<"f", "r", "o", "m">> >>

Rupee == "₹"

RECURSIVE StripPrefixes(_, _)
\* for prefix in prefixes: if text.startswith(prefix): text = text[len(prefix):].strip()
StripPrefixes(text, k) ==
    IF k > Len(prefixes) THEN text
    ELSE StripPrefixes(IF StartsWith(text, prefixes[k])
                       THEN Strip(From(text, Len(prefixes[k])))
                       ELSE text, k + 1)

\* variant: the connectors are left in the text
StripConnectors_Kept(text, k) == text

RECURSIVE StripConnectors(_, _)
\* for connector in connectors: if remaining_text.startswith(connector + " "): ...
StripConnectors(text, k) ==
    IF k > Len(connectors) THEN text
    ELSE StripConnectors(IF StartsWith(text, connectors[k] \o <<" ">>)
                         THEN Strip(From(text, Len(connectors[k])))
                         ELSE text, k + 1)

\* the length matched at position p by (?:rs|rupees?|inr|₹), 0 when none does;
\* withSymbol says whether the ₹ alternative is in the pattern
MarkerLen(s, p, withSymbol) ==
    IF OccursAt(s, p, <<"r", "s">>) THEN 2
    ELSE IF OccursAt(s, p, <<"r", "u", "p", "e", "e", "s">>) THEN 6
    ELSE IF OccursAt(s, p, <<"r", "u", "p", "e", "e">>) THEN 5
    ELSE IF OccursAt(s, p, <<"i", "n", "r">>) THEN 3
    ELSE IF withSymbol /\ OccursAt(s, p, <<Rupee>>) THEN 1
    ELSE 0

\* the ways \d+\.?\d* matches at position i: <<a, d, b>> = digits, point, digits
NumberSpans(s, i) ==
    {x \in (1..Len(s)) \X {0, 1} \X (0..Len(s)) :
        /\ x[1] <= Run(s, i, Digit)
        /\ (x[2] = 1 => OccursAt(s, i + x[1], <<".">>))
        /\ x[3] <= Run(s, i + x[1] + x[2], Digit)}

SpanLen(x) == x[1] + x[2] + x[3]

\* the backtracking order of the greedy quantifiers: the longest first group
\* first, then the point, then the longest second group
SpanRank(s, x) == (x[1] * 2 + x[2]) * (Len(s) + 1) + x[3]

BestSpan(s, S) == CHOOSE x \in S : \A y \in S : SpanRank(s, y) <= SpanRank(s, x)

NoMatch == [found |-> FALSE, start |-> 0, end |-> 0, group |-> <<>>]

\* a match of the 1-based positions i..j-1 whose group 1 is gi..gj-1
Matched(s, i, j, gi, gj) ==
    [found |-> TRUE, start |-> i, end |-> j, group |-> SubSeq(s, gi, gj - 1)]

\* \s*(?:rs|...) read from position p: the length of the marker found, or 0
MarkerAfter(s, p, withSymbol) == MarkerLen(s, p + Run(s, p, WS), withSymbol)

MarkerEnd(s, q, withSymbol) == q + MarkerLen(s, q, withSymbol)

\* the match whose group ends before position p
MarkerMatchAt(s, i, withSymbol, p) ==
    Matched(s, i, MarkerEnd(s, p + Run(s, p, WS), withSymbol), i, p)

\* the first of the spans `ok`, in backtracking order, gives the match
MarkerMatch(s, i, withSymbol, ok) ==
    IF ok = {} THEN NoMatch
    ELSE MarkerMatchAt(s, i, withSymbol, i + SpanLen(BestSpan(s, ok)))

\* (\d+\.?\d*)\s*(?:rs|rupees?|inr|₹) at position i
MatchNumberMarker(s, i, withSymbol) ==
    MarkerMatch(s, i, withSymbol,
                {x \in NumberSpans(s, i) : MarkerAfter(s, i + SpanLen(x), withSymbol) > 0})

NumberMatchEnd(s, start, p, q) == Matched(s, start, q, p, q)

\* (\d+\.?\d*) read greedily at position p, in a match that starts at `start`
NumberMatch(s, start, p, spans) ==
    IF spans = {} THEN NoMatch
    ELSE NumberMatchEnd(s, start, p, p + SpanLen(BestSpan(s, spans)))

SymbolNumberAt(s, i, p) == NumberMatch(s, i, p, NumberSpans(s, p))

\* ₹\s*(\d+\.?\d*) at position i
MatchSymbolNumber(s, i) ==
    IF OccursAt(s, i, <<Rupee>>) THEN SymbolNumberAt(s, i, i + 1 + Run(s, i + 1, WS))
    ELSE NoMatch

\* (\d+\.?\d*) at position i
MatchNumber(s, i) == NumberMatch(s, i, i, NumberSpans(s, i))

NumPatterns == 4

\* the k-th entry of amount_patterns (lines 42-47), tried at position i
MatchPattern(k, s, i) ==
    CASE k = 2 -> MatchSymbolNumber(s, i)
      [] k = 4 -> MatchNumber(s, i)
      [] OTHER -> MatchNumberMarker(s, i, k = 1)

Leftmost(ms) ==
    LET found == {m \in ms : m.found}
    IN IF found = {} THEN NoMatch
       ELSE CHOOSE m \in found : \A o \in found : m.start <= o.start

\* re.search(amount_patterns[k], text): the leftmost match
Search(k, s) == Leftmost({MatchPattern(k, s, i) : i \in 1..Len(s)})

\* variant: the match that starts leftmost in the text, whatever its pattern
FirstFound_Leftmost(hits) ==
    LET ks == {k \in DOMAIN hits : hits[k].found}
    IN IF ks = {} THEN NoMatch
       ELSE hits[CHOOSE k \in ks : \A j \in ks :
                    \/ hits[k].start < hits[j].start
                    \/ (hits[k].start = hits[j].start /\ k <= j)]

FirstFound(hits) ==
    LET ks == {k \in DOMAIN hits : hits[k].found}
    IN IF ks = {} THEN NoMatch ELSE hits[SetMin(ks)]

\* lines 52-62: the first pattern of the list, in order, that matches anywhere
FirstPattern(s) == FirstFound([k \in 1..NumPatterns |-> Search(k, s)])

\* re.split(r'[,\s]+', text, maxsplit=1)
Split1(s) ==
    LET seps == WS \cup {","}
        at == {i \in 1..Len(s) : s[i] \in seps}
    IN IF at = {} THEN <<s>>
       ELSE LET i == SetMin(at)
            IN <<SubSeq(s, 1, i - 1), From(s, i - 1 + Run(s, i, seps))>>

\* the result dict of parse; none = TRUE stands for the returned None
TextResult(amount, merchant, category) ==
    [none |-> FALSE,
     d |-> [amount |-> amount, currency |-> PyStr(<<"I", "N", "R">>),
            merchant |-> merchant, category |-> category, date |-> PyNone]]

TextNone == [none |-> TRUE, d |-> [amount |-> PyNone]]

Uncategorized == PyStr(<<"U", "n", "c", "a", "t", "e", "g", "o", "r", "i", "z", "e", "d">>)

\* variant: without the "Uncategorized" default
CategoryOf_Empty(first) == PyStr(first)

\* lines 90, 97-98
CategoryOf(first) == IF first = <<>> THEN Uncategorized ELSE PyStr(first)

MerchantOfRest(rest) == IF rest = <<>> THEN PyNone ELSE PyStr(rest)

\* lines 93-94
MerchantOf(parts) == IF Len(parts) > 1 THEN MerchantOfRest(Strip(parts[2])) ELSE PyNone

ResultOfParts(amount, parts) ==
    TextResult(amount, MerchantOf(parts), CategoryOf(Strip(parts[1])))

\* lines 87-106
ParseParts(amount, remaining) ==
    IF remaining = <<>> THEN TextResult(amount, PyNone, Uncategorized)
    ELSE ResultOfParts(amount, Split1(remaining))

\* lines 77-85
ParseCategory(amount, remaining_text) ==
    ParseParts(amount, StripConnectors(remaining_text, 1))

\* lines 58-59: text[:match.start()] + text[match.end():], stripped
Residual(text, m) == Strip(SubSeq(text, 1, m.start - 1) \o From(text, m.end - 1))

\* lines 64-75: the leading-number fallback
ParseLeading(text, m) ==
    IF m.found THEN ParseCategory(Float(m.group), Strip(From(text, m.end - 1)))
    ELSE TextNone

\* lines 49-62
ParseAmount(text, m) ==
    IF m.found THEN ParseCategory(Float(m.group), Residual(text, m))
    ELSE ParseLeading(text, MatchNumber(text, 1))

ParseNormalized(text) == ParseAmount(text, FirstPattern(text))

TextTransactionParser_parse(raw) ==
    IF Strip(raw) = <<>> THEN TextNone
    ELSE ParseNormalized(StripPrefixes(Lower(Strip(raw)), 1))

(***************************************************************************)
(* gemini_parser.py: module-level helpers                                  *)
(***************************************************************************)
INR == PyStr(<<"I", "N", "R">>)

DEFAULT_RESULT ==
    [merchant |-> PyNone, amount |-> PyNone, currency |-> INR, date |-> PyNone,
     category |-> PyNone]

RATE_LIMIT_KEY == "_rate_limit"

RETRY_DELAY_MAX == 60

\* variant: the copy of the defaults is returned without the flag
RateLimitedResult_NoFlag == DEFAULT_RESULT

\* out = _DEFAULT_RESULT.copy(); out[RATE_LIMIT_KEY] = True
RateLimitedResult ==
    [k \in DOMAIN DEFAULT_RESULT \cup {RATE_LIMIT_KEY} |->
        IF k = RATE_LIMIT_KEY THEN PyTrue ELSE DEFAULT_RESULT[k]]

(* An exception is [cls, has429, hasExhausted, hint]: its class, whether    *)
(* str(e) contains "429" or "RESOURCE_EXHAUSTED", and the number N of a     *)
(* "retry in N s" text in tenths of a second (-1 when there is none).       *)
Exc(cls, has429, hasExhausted, hint) ==
    [cls |-> cls, has429 |-> has429, hasExhausted |-> hasExhausted, hint |-> hint]

NoExc == Exc("none", FALSE, FALSE, -1)

\* min(int(float(N) + 1), RETRY_DELAY_MAX), else RETRY_DELAY_MAX
parse_retry_seconds(err) ==
    IF err.hint >= 0 THEN Min2((err.hint \div 10) + 1, RETRY_DELAY_MAX)
    ELSE RETRY_DELAY_MAX

is_rate_limit_error(err) == err.has429 \/ err.hasExhausted

(* A response text is a sequence of lines; a line is a Markdown fence       *)
(* (with or without a language tag) or a JSON document, given by what       *)
(* json.loads makes of it.                                                  *)
FenceLine == [line |-> "fence", kind |-> "", obj |-> [k \in {} |-> PyNone]]

FenceLangLine == [line |-> "fence_lang", kind |-> "", obj |-> [k \in {} |-> PyNone]]

\* kind: "object" (a dict), "array", "null", "invalid" (no JSON), or
\* "invalid_429" (no JSON, and the text contains "429")
DocLine(kind, obj) == [line |-> "doc", kind |-> kind, obj |-> obj]

IsFence(l) == l.line \in {"fence", "fence_lang"}

\* what _extract_json_from_response returns: a parsed value, or the ValueError
\* of line 57, whose message quotes the text
Parsed(kind, obj) == [raised |-> FALSE, err |-> NoExc, kind |-> kind, obj |-> obj]

InvalidJSON(has429) ==
    [raised |-> TRUE, err |-> Exc("ValueError", has429, FALSE, -1), kind |-> "invalid",
     obj |-> [k \in {} |-> PyNone]]

\* json.loads of the joined lines: one valid document and nothing else
json_loads(lines) ==
    IF Len(lines) = 1 /\ lines[1].line = "doc"
       /\ lines[1].kind \notin {"invalid", "invalid_429"}
    THEN Parsed(lines[1].kind, lines[1].obj)
    ELSE InvalidJSON(\E i \in 1..Len(lines) : lines[i].kind = "invalid_429")

\* variant: the text goes to json.loads with its fences
extract_json_from_response_NoStrip(response_text) == json_loads(response_text)

extract_json_from_response(response_text) ==
    LET text == response_text
        lines1 == IF text # <<>> /\ IsFence(text[1]) THEN Tail(text) ELSE text
        lines2 == IF text # <<>> /\ IsFence(text[1]) /\ lines1 # <<>>
                     /\ lines1[Len(lines1)].line = "fence"
                  THEN SubSeq(lines1, 1, Len(lines1) - 1)
                  ELSE lines1
    IN json_loads(lines2)

\* a provider response: its text attribute and the text of its first candidate
Response(text, cand) == [text |-> text, cand |-> cand]

get_response_text(response) ==
    IF response.text # <<>> THEN response.text ELSE response.cand

\* lines 148-154 / 209-215: the five keys read from the JSON object
NormalizeData(data) ==
    [merchant |-> DictGet(data, "merchant", PyNone),
     amount |-> DictGet(data, "amount", PyNone),
     currency |-> DictGet(data, "currency", INR),
     date |-> DictGet(data, "date", PyNone),
     category |-> DictGet(data, "category", PyNone)]

\* variant: no `except ValueError` clause before `except Exception`
ParseExcept_NoValueErrorClause(err) ==
    IF err.has429 \/ err.hasExhausted THEN RateLimitedResult ELSE DEFAULT_RESULT

\* the except clauses of parse / parse_text (lines 158-167, 218-227)
ParseExcept(err) ==
    IF err.cls = "ValueError" THEN DEFAULT_RESULT
    ELSE IF is_rate_limit_error(err) THEN RateLimitedResult
    ELSE DEFAULT_RESULT

\* lines 146-156 / 207-217: ValueError from _extract_json_from_response,
\* AttributeError from data.get on a value that is no dict
ParseData(data) ==
    IF data.raised THEN ParseExcept(data.err)
    ELSE IF data.kind # "object" THEN ParseExcept(Exc("AttributeError", FALSE, FALSE, -1))
    ELSE NormalizeData(data.obj)

ParseResponseText(response) ==
    ParseData(extract_json_from_response(get_response_text(response)))

\* lines 141-156 / 202-217: (response, rate_limited) = _generate_with_retry(...)
ParseResult(response, rate_limited) ==
    IF rate_limited THEN RateLimitedResult ELSE ParseResponseText(response)

(***************************************************************************)
(* telegram_service.py: the pure readers of an update                      *)
(*                                                                         *)
(* An update is [message, from_id, chat_id, photo, document, text]:        *)
(*   message  "absent" | "notdict" | "dict"                                *)
(*   from_id, chat_id   0 when the key is missing                          *)
(*   photo    "absent" | "empty" (an empty list) | "sizes"                 *)
(*   document "absent" | "pdf" | "image" | "image_nofile" (no file_id key) *)
(*   text     [present, s]                                                 *)
(***************************************************************************)
NoFile == ""

Update(message, from_id, chat_id, photo, document, text) ==
    [message |-> message, from_id |-> from_id, chat_id |-> chat_id,
     photo |-> photo, document |-> document, text |-> text]

NoText == [present |-> FALSE, s |-> <<>>]

Text(s) == [present |-> TRUE, s |-> s]

\* variant: documents are never looked at
get_file_id_from_message_PhotosOnly(u) ==
    IF u.photo = "sizes" THEN "photo_file" ELSE NoFile

\* TelegramService.get_file_id_from_message: every exception gives None
get_file_id_from_message(u) ==
    IF u.photo = "sizes" THEN "photo_file"
    ELSE IF u.photo = "empty" THEN NoFile            \* photos[-1]: IndexError
    ELSE IF u.document = "image" THEN "document_file"
    ELSE NoFile               \* no document, another media type, or KeyError

\* TelegramService.get_text_from_message
get_text_from_message(u) == IF u.text.present THEN u.text ELSE NoText

(***************************************************************************)
(* Inputs: settings, updates, and what the collaborators may answer.       *)
(***************************************************************************)
Settings(parser_type, key) == [parser_type |-> parser_type, gemini_api_key |-> key]

AllSettings == {Settings("GEMINI", TRUE), Settings("LOCAL", TRUE),
                Settings("GEMINI", FALSE)}

Sender == 7

Chat == 70

\* a second sender, writing in the private chat whose id is the sender's own
OtherSender == 8

Texts == << <<"a", "d", "d", " ", "1", "5", "r", "s", " ", "a", "s", " ", "c", "o",
              "f", "f", "e", "e">>,
            <<"4", "2">>,
            <<"h", "e", "l", "l", "o">>,
            <<" ", " ">>,
            <<>> >>

Updates ==
    {Update("absent", 0, 0, "absent", "absent", NoText),
     Update("notdict", 0, 0, "absent", "absent", NoText),
     Update("dict", 0, Chat, "absent", "absent", Text(Texts[2])),
     Update("dict", Sender, 0, "absent", "absent", NoText),
     Update("dict", Sender, 0, "sizes", "absent", NoText),
     Update("dict", Sender, Chat, "absent", "absent", NoText),
     Update("dict", Sender, Chat, "absent", "pdf", NoText),
     Update("dict", Sender, Chat, "absent", "image_nofile", NoText),
     Update("dict", Sender, Chat, "empty", "image", NoText),
     Update("dict", Sender, Chat, "sizes", "absent", NoText),
     Update("dict", Sender, Chat, "sizes", "absent", Text(Texts[1])),
     Update("dict", Sender, Chat, "absent", "image", Text(Texts[2])),
     Update("dict", Sender, Chat, "absent", "image_nofile", Text(Texts[2])),
     Update("dict", Sender, Chat, "absent", "pdf", Text(Texts[3])),
     Update("dict", Sender, Chat, "absent", "image", NoText)}
    \cup {Update("dict", Sender, Chat, "absent", "absent", Text(Texts[i])) :
             i \in 1..Len(Texts)}

Obj1 == [merchant |-> PyStr(<<"C", "a", "f", "e">>), amount |-> PyInt(-50),
         currency |-> PyStr(<<"U", "S", "D">>), date |-> PyNone, category |-> PyNone]

Obj2 == [merchant |-> PyNone, amount |-> PyFloat(-125, 1),
         category |-> PyStr(<<"F", "o", "o", "d">>)]

Obj3 == [merchant |-> PyStr(<<"C", "a", "f", "e">>), amount |-> PyNone,
         currency |-> PyNone, date |-> PyNone, category |-> PyNone]

Obj4 == [amount |-> PyInt(0), currency |-> INR]

Obj5 == [amount |-> PyInt(20)]

NoObj == [k \in {} |-> PyNone]

\* what the provider may answer to generate_content: a response or an error
Responses ==
    << Response(<<DocLine("object", Obj1)>>, <<>>),
       Response(<<DocLine("object", Obj2)>>, <<>>),
       Response(<<DocLine("object", Obj3)>>, <<>>),
       Response(<<DocLine("object", Obj4)>>, <<>>),
       Response(<<>>, <<FenceLangLine, DocLine("object", Obj5), FenceLine>>),
       Response(<<FenceLine, DocLine("object", Obj2), FenceLine>>, <<>>),
       Response(<<FenceLine, DocLine("object", Obj5)>>, <<>>),
       Response(<<DocLine("object", Obj5), FenceLine>>, <<>>),
       Response(<<DocLine("array", NoObj)>>, <<>>),
       Response(<<DocLine("null", NoObj)>>, <<>>),
       Response(<<DocLine("invalid", NoObj)>>, <<>>),
       Response(<<DocLine("invalid_429", NoObj)>>, <<>>),
       Response(<<>>, <<>>) >>

ProviderErrors ==
    << Exc("ClientError", TRUE, TRUE, 15),
       Exc("ClientError", TRUE, FALSE, -1),
       Exc("ClientError", FALSE, TRUE, 750),
       Exc("ClientError", TRUE, FALSE, 150),
       Exc("ServerError", FALSE, FALSE, -1),
       Exc("ValueError", FALSE, FALSE, -1) >>

\* what Image.open may raise on bytes that are no image: the message holds the
\* repr of the buffer, whose address may contain any digits
ImageErrors == << Exc("OSError", FALSE, FALSE, -1), Exc("OSError", TRUE, FALSE, -1) >>

\* what download_file returns: None, or the bytes of the file
NoBytes == ""

Downloads == {NoBytes, "image", "corrupt"}

Tasks == 1..NumTasks

(***************************************************************************)
(* State.                                                                  *)
(***************************************************************************)
VARIABLES
    settings,       \* app.config.settings, fixed for the process lifetime
    users,          \* the users table: a sequence of [id, telegram_id]
    transactions,   \* the transactions table: a sequence of rows
    parsers,        \* the number of GeminiParser instances constructed
    events,         \* the number of calls received so far
    h,              \* h[t]: the locals of the telegram_webhook call of task t
    g,              \* g[t]: the locals of the GeminiParser call of task t
    login_tokens,   \* the one_time_login_tokens table: every row inserted, in
                    \* the order of its id, with a mark on the deleted ones
    clock,          \* datetime.utcnow(), in minutes
    jwts,           \* the token responses given by verify_telegram_login
    reply,          \* the HTTP status of the last answer of the auth and
                    \* categories routers
    categories      \* the categories table: a sequence of rows, by id

vars == <<settings, users, transactions, parsers, events, h, g,
          login_tokens, clock, jwts, reply, categories>>

\* the state of the auth and categories routers, which the webhook leaves alone
api == <<login_tokens, clock, jwts, reply, categories>>

NoParts == <<>>

Msg(kind, chat, ok, parts) == [kind |-> kind, chat |-> chat, ok |-> ok, parts |-> parts]

IdleTask ==
    [pc |-> "idle", update |-> Update("absent", 0, 0, "absent", "absent", NoText),
     chat_id |-> 0, user_id |-> 0, file_id |-> NoFile, image_bytes |-> NoBytes,
     text |-> NoText, parsed |-> DEFAULT_RESULT, sent |-> <<>>, acks |-> 0,
     raised_at |-> "", tx |-> 0, event |-> 0, form |-> <<>>]

IdleCall ==
    [mode |-> "", attempt |-> 0, log |-> <<>>, delay |-> 0, err |-> NoExc,
     response |-> Response(<<>>, <<>>), rate_limited |-> FALSE,
     result |-> DEFAULT_RESULT, returned |-> FALSE]

\* an entry of g[t].log: a provider call with its outcome, or a sleep
CallEntry(out) == [ev |-> "call", out |-> out, d |-> 0]

SleepEntry(d) == [ev |-> "sleep", out |-> "", d |-> d]

Init ==
    /\ settings \in AllSettings
    /\ users = <<>>
    /\ transactions = <<>>
    /\ parsers = 0
    /\ events = 0
    /\ h = [t \in Tasks |-> IdleTask]
    /\ g = [t \in Tasks |-> IdleCall]
    /\ login_tokens = <<>>
    /\ clock = 0
    /\ jwts = <<>>
    /\ reply = 0
    /\ categories = <<>>

AtRest(t) == h[t].pc = "idle"

\* return {"ok": True}
Return(r) == [r EXCEPT !.pc = "done", !.acks = @ + 1]

\* the classes of the exceptions raised here that derive from Exception
ExceptionClasses ==
    {"AttributeError", "SQLAlchemyError", "NotImplementedError", "ValueError"}

\* variant: `except ValueError` in place of `except Exception`
HandlerCatches_ValueErrorOnly(cls) == cls = "ValueError"

\* `except Exception` (lines 172 and 183)
HandlerCatches(cls) == cls \in ExceptionClasses

\* an exception of class cls raised inside the try block of telegram_webhook
\* at step `at`; uncaught, it leaves the handler (pc "raised")
Raise(r, at, cls) ==
    [r EXCEPT !.pc = IF HandlerCatches(cls) THEN "except" ELSE "raised",
              !.raised_at = at]

\* await telegram_service.send_message(chat_id, text), delivered or not
Send(r, kind, ok, parts) ==
    [r EXCEPT !.sent = Append(@, Msg(kind, r.chat_id, ok, parts))]

(***************************************************************************)
(* telegram_webhook (webhooks.py lines 43-186), one action per step.       *)
(***************************************************************************)
\* the framework calls the handler with an update
Receive(t, u) ==
    /\ events < MaxEvents
    /\ \A x \in Tasks : AtRest(x)
    /\ events' = events + 1
    /\ h' = [h EXCEPT ![t] = [IdleTask EXCEPT !.pc = "check_message", !.update = u,
                                             !.event = events + 1]]
    /\ g' = [g EXCEPT ![t] = IdleCall]
    /\ UNCHANGED <<api, settings, users, transactions, parsers>>

\* lines 61-72
CheckMessage(t) ==
    /\ h[t].pc = "check_message"
    /\ LET u == h[t].update
       IN h' = [h EXCEPT ![t] =
                  IF u.message = "absent" THEN Return(@)
                  ELSE IF u.message = "notdict" THEN Raise(@, "message", "AttributeError")
                  ELSE IF u.from_id = 0 THEN Return([@ EXCEPT !.chat_id = u.chat_id])
                  ELSE [@ EXCEPT !.chat_id = u.chat_id, !.pc = "get_user"]]
    /\ UNCHANGED <<api, settings, users, transactions, parsers, events, g>>

\* the users whose telegram_id is tid
\* variant: the query has no filter on telegram_id
UsersWith_Any(tid) == 1..Len(users)

UsersWith(tid) == {i \in 1..Len(users) : users[i].telegram_id = tid}

\* get_or_create_user (lines 17-40), called at line 75; the query or the
\* commit may raise
get_or_create_user(t) ==
    /\ h[t].pc = "get_user"
    /\ LET tid == Str(PyInt(h[t].update.from_id))
           found == UsersWith(tid)
       IN \E outcome \in {"ok", "query_error", "commit_error"} :
            /\ outcome = "commit_error" => found = {}
            /\ IF outcome # "ok"
               THEN /\ h' = [h EXCEPT ![t] = Raise(@, "user", "SQLAlchemyError")]
                    /\ users' = users
               ELSE IF found # {}
               THEN /\ h' = [h EXCEPT ![t] = [@ EXCEPT !.pc = "classify",
                                                !.user_id = users[SetMin(found)].id]]
                    /\ users' = users
               ELSE /\ users' = Append(users, [id |-> Len(users) + 1,
                                               telegram_id |-> tid])
                    /\ h' = [h EXCEPT ![t] = [@ EXCEPT !.pc = "classify",
                                                !.user_id = Len(users) + 1]]
    /\ UNCHANGED <<api, settings, transactions, parsers, events, g>>

\* variant: text is handed to the configured parser
TextNext_ViaParser(text) ==
    IF text.present /\ text.s # <<>> THEN "get_parser" ELSE "send_hint"

\* lines 108-110, 123: `if text:` runs the text extractor, else the hint
TextNext(text) == IF text.present /\ text.s # <<>> THEN "parse_text" ELSE "send_hint"

\* lines 80-82, 106-110, 123: image first, then text, then neither
Classify(t) ==
    /\ h[t].pc = "classify"
    /\ LET file_id == get_file_id_from_message(h[t].update)
           text == get_text_from_message(h[t].update)
       IN h' = [h EXCEPT ![t] =
                  IF file_id # NoFile
                  THEN [@ EXCEPT !.file_id = file_id, !.pc = "notify"]
                  ELSE [@ EXCEPT !.text = text, !.pc = TextNext(text)]]
    /\ UNCHANGED <<api, settings, users, transactions, parsers, events, g>>

\* line 84
SendProcessing(t) ==
    /\ h[t].pc = "notify"
    /\ \E ok \in BOOLEAN :
         h' = [h EXCEPT ![t] = [Send(@, "processing", ok, NoParts) EXCEPT !.pc = "download"]]
    /\ UNCHANGED <<api, settings, users, transactions, parsers, events, g>>

\* variant: the result of download_file is not checked
DownloadNext_Unchecked(b) == "get_parser"

\* lines 87-95: without bytes the failure is reported, else the parser is got
DownloadNext(b) == IF b = NoBytes THEN "send_download_failed" ELSE "get_parser"

\* lines 85-87: download_file returns the bytes, or None on any failure
Download(t) ==
    /\ h[t].pc = "download"
    /\ \E b \in Downloads :
         h' = [h EXCEPT ![t] = [@ EXCEPT !.image_bytes = b, !.pc = DownloadNext(b)]]
    /\ UNCHANGED <<api, settings, users, transactions, parsers, events, g>>

\* parser_service.get_parser (lines 49-66) and GeminiParser.__init__
\* (gemini_parser.py lines 77-82): the class raised, or "gemini"
get_parser ==
    IF settings.parser_type = "LOCAL" THEN "NotImplementedError"
    ELSE IF ~settings.gemini_api_key THEN "ValueError"
    ELSE "gemini"

\* line 95
GetParser(t) ==
    /\ h[t].pc = "get_parser"
    /\ IF get_parser # "gemini"
       THEN /\ h' = [h EXCEPT ![t] = Raise(@, "get_parser", get_parser)]
            /\ UNCHANGED <<parsers, g>>
       ELSE /\ h' = [h EXCEPT ![t].pc = "parse_open"]
            /\ parsers' = parsers + 1
            /\ g' = [g EXCEPT ![t] = [IdleCall EXCEPT !.mode = "image"]]
    /\ UNCHANGED <<api, settings, users, transactions, events>>

(***************************************************************************)
(* GeminiParser.parse / parse_text and _generate_with_retry                *)
(***************************************************************************)
\* the call returns `result` to its caller: line 96 of webhooks.py for parse
ParseReturn(t, call, result) ==
    /\ g' = [g EXCEPT ![t] = [call EXCEPT !.result = result, !.returned = TRUE]]
    /\ h' = [h EXCEPT ![t] =
               IF call.mode = "image"
               THEN [@ EXCEPT !.parsed = result, !.pc = "validate"]
               ELSE [@ EXCEPT !.pc = "pt_done"]]

\* parse, line 140: Image.open(io.BytesIO(image_bytes))
ParseOpen(t) ==
    /\ h[t].pc = "parse_open"
    /\ IF h[t].image_bytes = "image"
       THEN /\ h' = [h EXCEPT ![t].pc = "gen_call"]
            /\ g' = g
       ELSE \E i \in 1..Len(ImageErrors) :
               ParseReturn(t, [g[t] EXCEPT !.err = ImageErrors[i]],
                           ParseExcept(ImageErrors[i]))
    /\ UNCHANGED <<api, settings, users, transactions, parsers, events>>

\* a direct call of parse_text (lines 169-202) on a constructed parser
CallParseText(t, text) ==
    /\ events < MaxEvents
    /\ \A x \in Tasks : AtRest(x)
    /\ get_parser = "gemini"
    /\ events' = events + 1
    /\ IF Strip(text) = <<>>
       THEN /\ h' = [h EXCEPT ![t] = [IdleTask EXCEPT !.pc = "pt_done"]]
            /\ g' = [g EXCEPT ![t] = [IdleCall EXCEPT !.mode = "text", !.returned = TRUE]]
       ELSE /\ h' = [h EXCEPT ![t] = [IdleTask EXCEPT !.pc = "gen_call"]]
            /\ g' = [g EXCEPT ![t] = [IdleCall EXCEPT !.mode = "text"]]
    /\ UNCHANGED <<api, settings, users, transactions, parsers>>

\* variant: a rate-limit rejection is retried on every attempt
RetryDecision_EveryAttempt(err, attempt) ==
    IF ~(err.has429 \/ err.hasExhausted) THEN "raise" ELSE "sleep"

\* variant: the first attempt is retried whatever the error
RetryDecision_AnyError(err, attempt) ==
    IF attempt = 0 THEN "sleep"
    ELSE IF err.has429 \/ err.hasExhausted THEN "rate_limited"
    ELSE "raise"

\* _generate_with_retry, lines 97-107: what follows an exception of the call
RetryDecision(err, attempt) ==
    IF ~is_rate_limit_error(err) THEN "raise"
    ELSE IF attempt = 0 THEN "sleep"
    ELSE "rate_limited"

\* variant: a response obtained on the retry is still reported rate limited
GenerateSuccess_FlagAfterRetry(response, attempt) ==
    [response |-> response, rate_limited |-> attempt > 0]

\* line 96: return (response, False)
GenerateSuccess(response, attempt) == [response |-> response, rate_limited |-> FALSE]

\* _generate_with_retry, lines 90-107: one generate_content call
GenerateCall(t) ==
    /\ h[t].pc = "gen_call"
    /\ \/ \E i \in 1..Len(Responses) :
            LET out == GenerateSuccess(Responses[i], g[t].attempt)
            IN /\ g' = [g EXCEPT ![t] = [@ EXCEPT !.log = Append(@, CallEntry("ok")),
                                           !.response = out.response,
                                           !.rate_limited = out.rate_limited]]
               /\ h' = [h EXCEPT ![t].pc = "parse_response"]
       \/ \E i \in 1..Len(ProviderErrors) :
            LET err == ProviderErrors[i]
                d == RetryDecision(err, g[t].attempt)
                call == [g[t] EXCEPT
                           !.log = Append(@, CallEntry(IF is_rate_limit_error(err)
                                                       THEN "rate_limit" ELSE "error")),
                           !.err = err]
            IN CASE d = "raise" -> ParseReturn(t, call, ParseExcept(err))
                 [] d = "sleep" ->
                      /\ g' = [g EXCEPT ![t] =
                                 [call EXCEPT !.delay = parse_retry_seconds(err)]]
                      /\ h' = [h EXCEPT ![t].pc = "gen_sleep"]
                 [] OTHER ->        \* line 107: return (None, True)
                      /\ g' = [g EXCEPT ![t] = [call EXCEPT !.rate_limited = TRUE]]
                      /\ h' = [h EXCEPT ![t].pc = "parse_response"]
    /\ UNCHANGED <<api, settings, users, transactions, parsers, events>>

\* line 104: await asyncio.sleep(delay) is over; the loop goes to attempt 1
GenerateSleep(t) ==
    /\ h[t].pc = "gen_sleep"
    /\ g' = [g EXCEPT ![t] = [@ EXCEPT !.log = Append(@, SleepEntry(g[t].delay)),
                                !.attempt = 1]]
    /\ h' = [h EXCEPT ![t].pc = "gen_call"]
    /\ UNCHANGED <<api, settings, users, transactions, parsers, events>>

\* lines 142-160 / 203-220
ParseResponse(t) ==
    /\ h[t].pc = "parse_response"
    /\ ParseReturn(t, g[t], ParseResult(g[t].response, g[t].rate_limited))
    /\ UNCHANGED <<api, settings, users, transactions, parsers, events>>

(***************************************************************************)
(* telegram_webhook, continued                                             *)
(***************************************************************************)
\* variant: `parsed_data.get("amount") is not None`
UsableAmount_NotNone(parsed) == DictGet(parsed, "amount", PyNone) # PyNone

\* line 99: parsed_data.get("amount") is truthy
UsableAmount(parsed) == Truthy(DictGet(parsed, "amount", PyNone))

\* lines 98-104
Validate(t) ==
    /\ h[t].pc = "validate"
    /\ h' = [h EXCEPT ![t].pc = IF UsableAmount(h[t].parsed) THEN "persist"
                                ELSE "send_no_amount"]
    /\ UNCHANGED <<api, settings, users, transactions, parsers, events, g>>

\* lines 110-122
ParseTextMessage(t) ==
    /\ h[t].pc = "parse_text"
    /\ LET r == TextTransactionParser_parse(h[t].text.s)
       IN h' = [h EXCEPT ![t] = IF r.none THEN [@ EXCEPT !.pc = "send_not_understood"]
                                ELSE [@ EXCEPT !.parsed = r.d, !.pc = "persist"]]
    /\ UNCHANGED <<api, settings, users, transactions, parsers, events, g>>

\* Transaction(...), lines 134-142: `category` is a relationship to Category
\* (models/transaction.py line 24), so assigning anything but None to it raises
TransactionRaises(parsed) == DictGet(parsed, "category", PyNone) # PyNone

\* the row of lines 134-142; `by` records the event that inserts it
Transaction(id, user_id, parsed) ==
    [id |-> id, user_id |-> user_id, by |-> 0,
     amount |-> Str(DictGet(parsed, "amount", PyStr(<<>>))),
     currency |-> DictGet(parsed, "currency", INR),
     merchant |-> DictGet(parsed, "merchant", PyNone),
     category |-> DictGet(parsed, "category", PyNone),
     status |-> "PENDING"]

\* lines 133-146: construct, add, commit (which may raise), refresh (which
\* may raise once the row is committed)
Persist(t) ==
    /\ h[t].pc = "persist"
    /\ IF TransactionRaises(h[t].parsed)
       THEN /\ h' = [h EXCEPT ![t] = Raise(@, "transaction", "AttributeError")]
            /\ transactions' = transactions
       ELSE \E outcome \in {"ok", "commit_error", "refresh_error"} :
              IF outcome = "commit_error"
              THEN /\ h' = [h EXCEPT ![t] = Raise(@, "commit", "SQLAlchemyError")]
                   /\ transactions' = transactions
              ELSE /\ transactions' =
                        Append(transactions,
                               [Transaction(Len(transactions) + 1, h[t].user_id,
                                            h[t].parsed) EXCEPT !.by = h[t].event])
                   /\ h' = [h EXCEPT ![t] =
                              IF outcome = "ok"
                              THEN [@ EXCEPT !.tx = Len(transactions) + 1,
                                             !.pc = "send_confirmation"]
                              ELSE Raise([@ EXCEPT !.tx = Len(transactions) + 1],
                                         "refresh", "SQLAlchemyError")]
    /\ UNCHANGED <<api, settings, users, parsers, events, g>>

\* lines 148-165: the parts of the confirmation text: currency symbol, amount,
\* merchant (None when left out), category (None when left out)
ConfirmationParts(parsed) ==
    LET amount == DictGet(parsed, "amount", PyStr(<<"N", "/", "A">>))
        currency == DictGet(parsed, "currency", INR)
        merchant == DictGet(parsed, "merchant", PyStr(<<"U", "n", "k", "n", "o", "w", "n">>))
        category == DictGet(parsed, "category", PyStr(<<"U", "n", "c", "a", "t", "e", "g",
                                                        "o", "r", "i", "z", "e", "d">>))
    IN << IF currency = INR THEN PyStr(<<Rupee>>) ELSE currency,
          amount,
          IF Truthy(merchant) /\ merchant # PyStr(<<"U", "n", "k", "n", "o", "w", "n">>)
          THEN merchant ELSE PyNone,
          IF Truthy(category) THEN category ELSE PyNone >>

\* variant: an update without content is answered like a text not understood
TerminalKind_NoHint(pc) ==
    CASE pc = "send_download_failed" -> "download_failed"
      [] pc = "send_no_amount" -> "no_amount"
      [] pc \in {"send_not_understood", "send_hint"} -> "not_understood"
      [] OTHER -> "confirmation"

\* the message each terminal step sends: lines 88-92, 100-104, 116-122,
\* 125-131, 167-170
TerminalKind(pc) ==
    CASE pc = "send_download_failed" -> "download_failed"
      [] pc = "send_no_amount" -> "no_amount"
      [] pc = "send_not_understood" -> "not_understood"
      [] pc = "send_hint" -> "hint"
      [] OTHER -> "confirmation"

SendTerminal(t) ==
    /\ h[t].pc \in {"send_download_failed", "send_no_amount", "send_not_understood",
                    "send_hint", "send_confirmation"}
    /\ \E ok \in BOOLEAN :
         h' = [h EXCEPT ![t] =
                 Return(Send(@, TerminalKind(h[t].pc), ok,
                             IF h[t].pc = "send_confirmation"
                             THEN ConfirmationParts(h[t].parsed) ELSE NoParts))]
    /\ UNCHANGED <<api, settings, users, transactions, parsers, events, g>>

\* variant: the except block never finds the chat id
ExceptChat_NoChat(u) == [raised |-> u.message = "notdict", chat_id |-> 0]

\* line 177: update.get("message", {}).get("chat", {}).get("id")
ExceptChat(u) ==
    [raised |-> u.message = "notdict",
     chat_id |-> IF u.message = "dict" THEN u.chat_id ELSE 0]

\* lines 172-186: the handler of `except Exception`; what its own try block
\* raises is swallowed (lines 183-184)
Except(t) ==
    /\ h[t].pc = "except"
    /\ LET c == ExceptChat(h[t].update)
       IN IF c.raised /\ ~HandlerCatches("AttributeError")
          THEN h' = [h EXCEPT ![t].pc = "raised"]
          ELSE IF ~c.raised /\ c.chat_id # 0
          THEN \E ok \in BOOLEAN :
                 h' = [h EXCEPT ![t] =
                         Return(Send([@ EXCEPT !.chat_id = c.chat_id], "error", ok, NoParts))]
          ELSE h' = [h EXCEPT ![t] = Return(@)]
    /\ UNCHANGED <<api, settings, users, transactions, parsers, events, g>>

\* the response has gone out and the locals of the call are released
Finish(t) ==
    /\ h[t].pc \in {"done", "pt_done", "raised"}
    /\ h' = [h EXCEPT ![t] = IdleTask]
    /\ g' = [g EXCEPT ![t] = IdleCall]
    /\ UNCHANGED <<api, settings, users, transactions, parsers, events>>

Step(t) ==
    \/ CheckMessage(t)
    \/ get_or_create_user(t)
    \/ Classify(t)
    \/ SendProcessing(t)
    \/ Download(t)
    \/ GetParser(t)
    \/ ParseOpen(t)
    \/ GenerateCall(t)
    \/ GenerateSleep(t)
    \/ ParseResponse(t)
    \/ Validate(t)
    \/ ParseTextMessage(t)
    \/ Persist(t)
    \/ SendTerminal(t)
    \/ Except(t)
    \/ Finish(t)

Next ==
    \/ \E t \in Tasks, u \in Updates : Receive(t, u)
    \/ \E t \in Tasks, i \in 1..Len(Texts) : CallParseText(t, Texts[i])
    \/ \E t \in Tasks : Step(t)

Spec == Init /\ [][Next]_vars

(***************************************************************************)
(* Calls of TextTransactionParser.parse on texts of the documented form    *)
(* "<prefix>? <digits>(rs|rupees|inr|₹)? <connector>? <word>(<rest>)?"    *)
(* and on the literal examples.                                            *)
(***************************************************************************)
\* no prefix, "add"
OptPrefixes == {<<>>, prefixes[1]}

\* no connector, "as"
OptConnectors == {<<>>, connectors[1]}

OptMarkers == {<<>>, <<"r", "s">>, <<Rupee>>}

FormDigits == {<<"1", "5">>, <<"7">>}

FormWords == {<<"t", "e", "a">>, <<"r", "s", "v", "p">>}

OptRests == {<<>>, <<"b", "a", "r">>}

\* a text of the form, by its parts; an absent part is the empty sequence
Forms ==
    [prefix : OptPrefixes, digits : FormDigits, marker : OptMarkers,
     connector : OptConnectors, word : FormWords, rest : OptRests]

\* a and b separated by one space, when both are there
Spaced(a, b) == IF a = <<>> THEN b ELSE IF b = <<>> THEN a ELSE a \o <<" ">> \o b

\* the text of the form f
Compose(f) ==
    Spaced(f.prefix,
           Spaced(f.digits \o f.marker, Spaced(f.connector, Spaced(f.word, f.rest))))

\* the docstring examples (text_parser.py lines 12-16) and a bare number
Literals == {<<"a", "d", "d", " ", "1", "5", "r", "s", " ", "a", "s", " ", "c", "o", "f", "f", "e", "e">>, <<"s", "p", "e", "n", "t", " ", "5", "0", " ", "o", "n", " ", "f", "o", "o", "d">>, <<"4", "2">>}

\* other texts a user may send: empty, blank, without a digit, with the number
\* after or inside the words, with two verbs or two connectors in a row, with
\* a verb that starts a longer word, and with two numbers
Samples ==
    {<<>>,
     <<" ">>,
     <<"t", "e", "a", " ", "b", "a", "r">>,
     <<"t", "e", "a", " ", "7">>,
     <<",", "7">>,
     <<"a", "d", "d", " ", "p", "a", "i", "d", " ", "7", " ", "t", "e", "a">>,
     <<"s", "p", "e", "n", "d", "i", "n", "g", " ", "7", " ", "t", "e", "a">>,
     <<"7", " ", "a", "s", " ", "f", "o", "r", " ", "t", "e", "a">>,
     <<"1", "5", " ", "t", "e", "a", " ", "2", "0", "r", "s">>,
     <<"7", " ", "t", "e", "a", " ", "₹", "2", "0">>,
     <<"t", "e", "a", "7", "r", "s", "b", "a", "r">>}

\* the inputs of the calls: a text, and its parts when it is built from a form
TextInputs ==
    {[text |-> Compose(f), form |-> <<f>>] : f \in Forms}
        \cup {[text |-> l, form |-> <<>>] : l \in Literals \cup Samples}

\* text_parser.parse(text) called on its own; the result is kept in `parsed`
ParseTextCall(t, in) ==
    /\ \A x \in Tasks : AtRest(x)
    /\ LET r == TextTransactionParser_parse(in.text)
       IN h' = [h EXCEPT ![t] =
                  [IdleTask EXCEPT !.pc = IF r.none THEN "tp_none" ELSE "tp_done",
                                   !.text = Text(in.text), !.form = in.form,
                                   !.parsed = r.d]]
    /\ UNCHANGED <<api, settings, users, transactions, parsers, events, g>>

\* the caller drops the result
ParseTextReturn(t) ==
    /\ h[t].pc \in {"tp_done", "tp_none"}
    /\ h' = [h EXCEPT ![t] = IdleTask]
    /\ UNCHANGED <<api, settings, users, transactions, parsers, events, g>>

TextParserNext ==
    \/ \E t \in Tasks, in \in TextInputs : ParseTextCall(t, in)
    \/ \E t \in Tasks : ParseTextReturn(t)

\* the parser reads no setting: one configuration is enough
TextInit == Init /\ settings = Settings("GEMINI", TRUE)

TextSpec == TextInit /\ [][TextParserNext]_vars

(***************************************************************************)
(* Concurrent handling: the event loop runs the handlers of several        *)
(* updates, switching between them where they await.                       *)
(***************************************************************************)
\* the updates received concurrently
ConcUpdates ==
    {Update("dict", Sender, Chat, "sizes", "absent", NoText),
     Update("dict", Sender, Chat, "absent", "absent", Text(Texts[2])),
     Update("dict", OtherSender, OtherSender, "absent", "absent", Text(Texts[2]))}

\* variant: the delay is waited with time.sleep, which keeps the event loop
HoldsLoop_TimeSleep(pc) == pc = "gen_sleep"

\* gemini_parser.py line 104, `await asyncio.sleep(delay)`: a task at position
\* pc keeps the event loop to itself; a suspended task never does
HoldsLoop(pc) == FALSE

\* the event loop can run task t: no other task keeps the loop
LoopFree(t) == \A x \in Tasks \ {t} : ~HoldsLoop(h[x].pc)

\* the framework starts a handler for an update while others are under way
ReceiveConcurrently(t, u) ==
    /\ events < MaxEvents
    /\ AtRest(t)
    /\ LoopFree(t)
    /\ events' = events + 1
    /\ h' = [h EXCEPT ![t] = [IdleTask EXCEPT !.pc = "check_message", !.update = u,
                                             !.event = events + 1]]
    /\ g' = [g EXCEPT ![t] = IdleCall]
    /\ UNCHANGED <<api, settings, users, transactions, parsers>>

\* the event loop resumes task t
Resume(t) == LoopFree(t) /\ Step(t)

\* task t is suspended in the delay before the retry (line 104)
Suspended(t) == h[t].pc = "gen_sleep"

\* every task but t is at rest or suspended in the delay
Quiet(t) == \A x \in Tasks \ {t} : h[x].pc \in {"idle", "gen_sleep"}

\* The schedules explored are those of handlers that run while the others
\* are suspended in the retry delay: an update arrives, and a delay expires,
\* when no other handler is in the middle of its steps.
ConcNext ==
    \/ \E t \in Tasks, u \in ConcUpdates : Quiet(t) /\ ReceiveConcurrently(t, u)
    \/ \E t \in Tasks : (Suspended(t) => Quiet(t)) /\ Resume(t)

ConcSpec == Init /\ [][ConcNext]_vars

(***************************************************************************)
(* auth.py: login by Telegram username (lines 130-181) and the exchange of *)
(* the one-time token or code for a JWT (lines 183-206). Both handlers run *)
(* their queries and their commit without awaiting in between: one action  *)
(* each. No code sets User.is_active to False, and a telegram_username is  *)
(* only stored together with a telegram_id (users.py lines 96-99).         *)
(***************************************************************************)
\* what the webhook and the parsers work on, which these routers leave alone
web == <<settings, users, transactions, parsers, events, h, g>>

magic_link_expire_minutes == 10

\* the users who came through the bot and linked a username
AuthUsers ==
    << [id |-> 1, telegram_id |-> <<"7">>, telegram_username |-> <<"a", "n", "n">>,
        is_active |-> TRUE],
       [id |-> 2, telegram_id |-> <<"8">>, telegram_username |-> <<"b", "o", "b">>,
        is_active |-> TRUE] >>

\* the usernames asked for: as stored, typed with @ and capitals, unknown, blank
Usernames ==
    {<<"a", "n", "n">>, <<"@", "B", "o", "b">>, <<"e", "v", "e">>, <<" ">>}

RECURSIVE LStripAt(_)
\* str.lstrip("@")
LStripAt(s) == IF s # <<>> /\ s[1] = "@" THEN LStripAt(Tail(s)) ELSE s

\* username.strip().lstrip("@").lower(), "" for an empty username
normalize_telegram_username(username) == Lower(LStripAt(Strip(username)))

\* line 153, six times secrets.choice(string.digits): two of the 10^6 codes
Codes == {<<"0", "0", "0", "0", "0", "7">>, <<"4", "2", "4", "2", "4", "2">>}

\* line 152, secrets.token_urlsafe(32): a fresh value for every row (the column
\* is unique), named here after the id of the row
TokenOf(id) == <<"t", "k">> \o NatStr(id)

\* what a client may present: a token, a code, or nothing
Presented == {TokenOf(i) : i \in 1..MaxEvents} \cup Codes \cup {<<>>}

\* the rows of one_time_login_tokens that are in the table
LiveTokens == {i \in 1..Len(login_tokens) : ~login_tokens[i].deleted}

\* variant: the filter has no condition on expires_at
Unexpired_Always(row) == TRUE

\* line 194: OneTimeLoginToken.expires_at > datetime.utcnow()
Unexpired(row) == row.expires_at > clock

\* variant: the row stays in the table
Consume_Kept(rows, i) == rows

\* lines 204-205: db.delete(row); db.commit()
Consume(rows, i) == [rows EXCEPT ![i].deleted = TRUE]

\* POST /login-by-telegram-username (lines 130-181)
login_by_telegram_username(name) ==
    /\ Len(login_tokens) < MaxEvents
    /\ LET username == normalize_telegram_username(name)
           found == {i \in 1..Len(users) : users[i].telegram_username = username}
       IN IF username = <<>> THEN reply' = 422 /\ login_tokens' = login_tokens
          ELSE IF found = {} THEN reply' = 404 /\ login_tokens' = login_tokens
          ELSE IF users[SetMin(found)].telegram_id = <<>>
          THEN reply' = 400 /\ login_tokens' = login_tokens
          ELSE \E code \in Codes, outcome \in {"ok", "commit_error", "send_failed"} :
                 /\ login_tokens' =
                        IF outcome = "commit_error" THEN login_tokens
                        ELSE Append(login_tokens,
                                    [id |-> Len(login_tokens) + 1,
                                     token |-> TokenOf(Len(login_tokens) + 1),
                                     code |-> code,
                                     user_id |-> users[SetMin(found)].id,
                                     expires_at |-> clock + magic_link_expire_minutes,
                                     deleted |-> FALSE])
                 /\ reply' = IF outcome = "ok" THEN 200 ELSE 500
    /\ UNCHANGED <<web, clock, jwts, categories>>

\* POST and GET /verify-telegram-login (lines 183-217); .first() has no
\* ORDER BY: any of the matching rows
verify_telegram_login(body) ==
    /\ Len(jwts) <= MaxEvents
    /\ LET token_or_code == Strip(body)
           rows == {i \in LiveTokens :
                      /\ token_or_code \in {login_tokens[i].token, login_tokens[i].code}
                      /\ Unexpired(login_tokens[i])}
       IN IF token_or_code = <<>>
          THEN reply' = 422 /\ UNCHANGED <<login_tokens, jwts>>
          ELSE IF rows = {}
          THEN reply' = 401 /\ UNCHANGED <<login_tokens, jwts>>
          ELSE \E i \in rows, committed \in BOOLEAN :
                 LET user == {u \in 1..Len(users) : users[u].id = login_tokens[i].user_id}
                 IN IF user = {} \/ \E u \in user : ~users[u].is_active
                    THEN reply' = 401 /\ UNCHANGED <<login_tokens, jwts>>
                    ELSE IF ~committed
                    THEN reply' = 500 /\ UNCHANGED <<login_tokens, jwts>>
                    ELSE /\ login_tokens' = Consume(login_tokens, i)
                         /\ jwts' = Append(jwts, [sub |-> users[SetMin(user)].id,
                                                   row |-> i,
                                                   presented |-> token_or_code,
                                                   at |-> clock])
                         /\ reply' = 200
    /\ UNCHANGED <<web, clock, categories>>

\* the time until which the clock is followed
Horizon == 2 * magic_link_expire_minutes

\* time passes, half a validity period at a time
Tick ==
    /\ clock < Horizon
    /\ clock' = clock + (magic_link_expire_minutes \div 2)
    /\ UNCHANGED <<web, login_tokens, jwts, reply, categories>>

AuthNext ==
    \/ \E name \in Usernames : login_by_telegram_username(name)
    \/ \E body \in Presented : verify_telegram_login(body)
    \/ Tick

AuthInit ==
    /\ settings = Settings("GEMINI", TRUE)
    /\ users = AuthUsers
    /\ transactions = <<>> /\ parsers = 0 /\ events = 0
    /\ h = [t \in Tasks |-> IdleTask]
    /\ g = [t \in Tasks |-> IdleCall]
    /\ login_tokens = <<>> /\ clock = 0 /\ jwts = <<>> /\ reply = 0
    /\ categories = <<>>

AuthSpec == AuthInit /\ [][AuthNext]_vars

(***************************************************************************)
(* categories.py: create_category (lines 90-141), update_category (lines   *)
(* 144-178) and delete_category (lines 181-209), for the authenticated     *)
(* user. A row is [id, user_id, category_type, parent_id, name, is_active, *)
(* under]; parent_id 0 is NULL; `under` keeps the parent the row was       *)
(* created with.                                                           *)
(***************************************************************************)
CategoryNames == {"food", "fuel"}

\* the bodies of the PUT requests, by the fields that are set in them
\* (CategoryUpdate, schemas/category.py lines 22-30)
CategoryUpdates ==
    {[name |-> "fuel"], [category_type |-> "INCOME"], [parent_id |-> 0]}
        \cup {[parent_id |-> k] : k \in 1..MaxEvents}

\* _name_exists (lines 79-87); exclude 0 is None
name_exists(user_id, name, exclude, parent_id) ==
    \E i \in 1..Len(categories) :
        /\ categories[i].user_id = user_id /\ categories[i].name = name
        /\ categories[i].is_active
        /\ categories[i].id # exclude
        /\ categories[i].parent_id = parent_id

\* the row of id that current_user owns, as a set
OwnCategory(current_user, id) ==
    {i \in 1..Len(categories) :
        categories[i].id = id /\ categories[i].user_id = current_user}

\* POST /categories (lines 90-141)
create_category(current_user, name, category_type, parent_id) ==
    /\ Len(categories) < MaxEvents
    /\ LET parent == {i \in OwnCategory(current_user, parent_id) : categories[i].is_active}
           refused ==
               IF parent_id = 0 THEN 0
               ELSE IF parent = {} THEN 404
               ELSE IF \E i \in parent : categories[i].category_type # "EXPENSE" THEN 400
               ELSE IF \E i \in parent : categories[i].parent_id # 0 THEN 400
               ELSE 0
       IN IF refused # 0 THEN reply' = refused /\ categories' = categories
          ELSE IF name_exists(current_user, name, 0, parent_id)
          THEN reply' = 400 /\ categories' = categories
          ELSE \E committed \in BOOLEAN :
                 IF ~committed THEN reply' = 500 /\ categories' = categories
                 ELSE /\ reply' = 201
                      /\ categories' =
                            Append(categories,
                                   [id |-> Len(categories) + 1,
                                    user_id |-> current_user,
                                    category_type |-> IF parent_id # 0 THEN "EXPENSE"
                                                      ELSE category_type,
                                    parent_id |-> parent_id, name |-> name,
                                    is_active |-> TRUE, under |-> parent_id])
    /\ UNCHANGED <<web, login_tokens, clock, jwts>>

\* lines 165-169: setattr for every field that is set in the body
SetFields(row, update_data) ==
    [f \in DOMAIN row |-> IF f \in DOMAIN update_data THEN update_data[f] ELSE row[f]]

\* the foreign key of parent_id: NULL or the id of a row
ParentExists(row) == row.parent_id = 0 \/ row.parent_id \in 1..Len(categories)

\* PUT /categories/{category_id} (lines 144-178)
update_category(current_user, category_id, category_update) ==
    /\ LET own == OwnCategory(current_user, category_id)
       IN IF own = {} THEN reply' = 404 /\ categories' = categories
          ELSE LET i == SetMin(own)
                   db_category == categories[i]
               IN IF /\ "name" \in DOMAIN category_update
                     /\ category_update.name # db_category.name
                     /\ name_exists(current_user, category_update.name, category_id,
                                    db_category.parent_id)
                  THEN reply' = 400 /\ categories' = categories
                  ELSE \E committed \in BOOLEAN :
                         IF committed /\ ParentExists(SetFields(db_category, category_update))
                         THEN /\ reply' = 200
                              /\ categories' =
                                    [categories EXCEPT
                                       ![i] = SetFields(db_category, category_update)]
                         ELSE reply' = 500 /\ categories' = categories
    /\ UNCHANGED <<web, login_tokens, clock, jwts>>

\* DELETE /categories/{category_id} (lines 181-209)
delete_category(current_user, category_id) ==
    /\ LET own == OwnCategory(current_user, category_id)
       IN IF own = {} THEN reply' = 404 /\ categories' = categories
          ELSE IF \E c \in 1..Len(categories) :
                     categories[c].parent_id = category_id /\ categories[c].is_active
          THEN reply' = 400 /\ categories' = categories
          ELSE \E committed \in BOOLEAN :
                 IF committed
                 THEN /\ reply' = 204
                      /\ categories' = [categories EXCEPT ![SetMin(own)].is_active = FALSE]
                 ELSE reply' = 500 /\ categories' = categories
    /\ UNCHANGED <<web, login_tokens, clock, jwts>>

CategoriesNext ==
    \/ \E u \in 1..Len(users), name \in CategoryNames,
          type \in {"EXPENSE", "INCOME"}, parent_id \in 0..MaxEvents :
            create_category(users[u].id, name, type, parent_id)
    \/ \E u \in 1..Len(users), id \in 1..MaxEvents, body \in CategoryUpdates :
            update_category(users[u].id, id, body)
    \/ \E u \in 1..Len(users), id \in 1..MaxEvents : delete_category(users[u].id, id)

CategoriesSpec == AuthInit /\ [][CategoriesNext]_vars

(***************************************************************************)
(* Properties.                                                             *)
(***************************************************************************)
\* task t handles (or has handled) a webhook update
IsEvent(t) == h[t].event # 0

Done(t) == IsEvent(t) /\ h[t].pc = "done"

\* the rows inserted by the event of task t
RowsOf(t) == {i \in 1..Len(transactions) : transactions[i].by = h[t].event}

Kinds(t) == {h[t].sent[i].kind : i \in 1..Len(h[t].sent)}

\* the GeminiParser call of task t has returned
Returned(t) == g[t].mode # "" /\ g[t].returned

HasRateLimitFlag(d) == RATE_LIMIT_KEY \in DOMAIN d

\* C1: every update handled by telegram_webhook, whatever its shape and
\* whichever step raises, is acknowledged with {"ok": true} exactly once: no
\* exception leaves the handler, an acknowledgment is counted exactly when the
\* handler is done, and until then the handler always has a next step (the
\* step that runs the text parser is guarded by its position alone).
C1_AcknowledgedExactlyOnce ==
    \A t \in Tasks :
        IsEvent(t) =>
            /\ h[t].pc # "raised"
            /\ h[t].acks = (IF h[t].pc = "done" THEN 1 ELSE 0)
            /\ (h[t].pc \notin {"done", "parse_text"} => ENABLED Step(t))

\* C1 witness: an event whose database commit raised is done and acknowledged
C1_Witness ==
    \E t \in Tasks : Done(t) /\ h[t].raised_at = "commit" /\ h[t].acks = 1

\* the extraction of the event of task t gave a usable result: an image result
\* with an amount, or a text the deterministic extractor parses
UsableImage(t) ==
    h[t].file_id # NoFile /\ Returned(t) /\ UsableAmount(g[t].result)

UsableText(t) ==
    /\ h[t].file_id = NoFile
    /\ h[t].text.s # <<>>
    /\ ~TextTransactionParser_parse(h[t].text.s).none

\* the row the claim expects for the result d
ExpectedRow(row, t, d) ==
    /\ row.status = "PENDING"
    /\ row.user_id = h[t].user_id
    /\ row.amount = Str(d.amount)
    /\ row.currency = d.currency
    /\ row.merchant = d.merchant
    /\ row.category = d.category

\* C2 (as claimed): once an event with a usable extraction result is done, and
\* the database did not fail, exactly one transaction of that event exists,
\* owned by the resolved user, PENDING, with the extracted amount, currency,
\* merchant and category; in particular for text results.
C2_PersistsUsableResult ==
    \A t \in Tasks :
        (Done(t) /\ (UsableImage(t) \/ UsableText(t)) /\ h[t].raised_at # "commit") =>
            /\ Cardinality(RowsOf(t)) = 1
            /\ \A i \in RowsOf(t) :
                 ExpectedRow(transactions[i], t,
                             IF UsableText(t)
                             THEN TextTransactionParser_parse(h[t].text.s).d
                             ELSE g[t].result)

\* the update carries no photo, no document declared an image, and no text
NoContent(u) ==
    u.photo = "absent" /\ u.document \notin {"image", "image_nofile"} /\ ~u.text.present

HasSender(u) == u.message = "dict" /\ u.from_id # 0

C4_RateLimitedIsTryLater ==
    \A t \in Tasks :
        (Done(t) /\ Returned(t) /\ HasRateLimitFlag(g[t].result)) =>
            /\ "no_amount" \notin Kinds(t)
            /\ RowsOf(t) = {}

Calls(t) == {i \in 1..Len(g[t].log) : g[t].log[i].ev = "call"}

Sleeps(t) == {i \in 1..Len(g[t].log) : g[t].log[i].ev = "sleep"}

\* C5: within one parse / parse_text call the provider is invoked at most
\* twice; the second invocation exists exactly when the first one was rejected
\* as rate limited; one delay is waited, between the two invocations, and
\* nothing is waited after the second invocation.
C5_RetryOnce ==
    \A t \in Tasks :
        LET log == g[t].log
        IN /\ Cardinality(Calls(t)) <= 2
           /\ Sleeps(t) \subseteq {2}
           /\ Calls(t) \subseteq {1, 3}
           /\ (Len(log) >= 2 => log[1].out = "rate_limit")
           /\ (Returned(t) /\ log # <<>> => (log[1].out = "rate_limit" <=> Len(log) = 3))

\* C5 witness: a call returned after its second invocation was rejected too
C5_Witness ==
    \E t \in Tasks :
        Returned(t) /\ Len(g[t].log) = 3 /\ g[t].log[3].out = "rate_limit"

\* the response is one JSON object
IsObject(response) ==
    /\ Len(response.text) = 1
    /\ response.text[1].line = "doc"
    /\ response.text[1].kind = "object"

\* C6: a first call rejected as rate limited followed by a second call that
\* answers a JSON object gives the fields of that object (currency INR when
\* the object has none), without the rate-limited flag.
C6_RetrySuccessIsPayload ==
    \A t \in Tasks :
        (/\ Returned(t)
         /\ Len(g[t].log) = 3
         /\ g[t].log[1].out = "rate_limit"
         /\ g[t].log[3].out = "ok"
         /\ IsObject(g[t].response)) =>
            LET obj == g[t].response.text[1].obj
                r == g[t].result
            IN /\ ~HasRateLimitFlag(r)
               /\ DOMAIN r = {"merchant", "amount", "currency", "date", "category"}
               /\ \A k \in DOMAIN r :
                    r[k] = IF k \in DOMAIN obj THEN obj[k]
                           ELSE IF k = "currency" THEN INR ELSE PyNone

\* C6 witness: such a retried call returned an amount
C6_Witness ==
    \E t \in Tasks :
        /\ Returned(t) /\ Len(g[t].log) = 3 /\ g[t].log[3].out = "ok"
        /\ IsObject(g[t].response) /\ g[t].result.amount = PyInt(-50)

AllDefault(d) ==
    /\ d.merchant = PyNone /\ d.amount = PyNone /\ d.date = PyNone
    /\ d.category = PyNone /\ d.currency = INR

\* C7: when both provider calls are rejected as rate limited the call returns
\* a result whose rate-limited flag is true; and every returned result with
\* the flag holds the defaults in all other fields.
C7_RateLimitedSentinel ==
    \A t \in Tasks :
        Returned(t) =>
            /\ (Len(g[t].log) = 3 /\ g[t].log[3].out = "rate_limit" =>
                    HasRateLimitFlag(g[t].result) /\ g[t].result[RATE_LIMIT_KEY] = PyTrue)
            /\ (HasRateLimitFlag(g[t].result) =>
                    /\ AllDefault(g[t].result)
                    /\ DOMAIN g[t].result =
                         {"merchant", "amount", "currency", "date", "category",
                          RATE_LIMIT_KEY})

\* C7 witness: a call returned the sentinel after two rate-limit rejections
C7_Witness ==
    \E t \in Tasks :
        /\ Returned(t) /\ Len(g[t].log) = 3 /\ g[t].log[3].out = "rate_limit"
        /\ HasRateLimitFlag(g[t].result)

\* C8: a provider error that is not classified as rate limiting ends the
\* calls (no call and no delay follows it, on the first call or on the
\* retry), and the call returns the default result without the flag.
C8_OtherErrorsNotRetried ==
    \A t \in Tasks :
        \A i \in 1..Len(g[t].log) :
            g[t].log[i].out = "error" =>
                /\ i = Len(g[t].log)
                /\ Returned(t)
                /\ AllDefault(g[t].result)
                /\ ~HasRateLimitFlag(g[t].result)

\* C8 witness: the retry itself met such an error
C8_Witness ==
    \E t \in Tasks :
        Returned(t) /\ Len(g[t].log) = 3 /\ g[t].log[3].out = "error"

\* the text of the response is no JSON object after fence stripping
NotAnObject(response) ==
    LET data == extract_json_from_response(get_response_text(response))
    IN data.raised \/ data.kind # "object"

\* C9: a response whose text, after fence stripping, is not valid JSON or is
\* valid JSON but no object gives the default result without the flag.
C9_MalformedIsDefault ==
    \A t \in Tasks :
        (/\ Returned(t)
         /\ g[t].log # <<>>
         /\ g[t].log[Len(g[t].log)].out = "ok"
         /\ NotAnObject(g[t].response)) =>
            /\ AllDefault(g[t].result)
            /\ ~HasRateLimitFlag(g[t].result)

\* C9 witness: a response that is not JSON and quotes "429" gave the default
C9_Witness ==
    \E t \in Tasks :
        /\ Returned(t) /\ g[t].log # <<>> /\ g[t].log[Len(g[t].log)].out = "ok"
        /\ g[t].response.text # <<>>
        /\ g[t].response.text[1].kind = "invalid_429"
        /\ AllDefault(g[t].result)

FailureKinds == {"hint", "download_failed", "no_amount", "not_understood", "error"}

\* the event of task t ended without a transaction
Failed(t) == Done(t) /\ RowsOf(t) = {}

Classified(t) == IsEvent(t) /\ h[t].user_id # 0 /\ h[t].pc # "classify"

\* the deterministic text extractor is or has been invoked for the event
TextPath(t) ==
    \/ h[t].pc = "parse_text"
    \/ h[t].file_id = NoFile /\ h[t].text.present /\ h[t].text.s # <<>>

\* the image path of the event ended by a download failure, or reached the
\* image parser (its construction, or a call of it)
ImagePathEnd(t) ==
    \/ "download_failed" \in Kinds(t)
    \/ h[t].raised_at = "get_parser"
    \/ g[t].mode = "image"

\* the update carries a photo, or a document declared an image
HasImage(u) == u.photo = "sizes" \/ u.document \in {"image", "image_nofile"}

\* the update carries a photo with a size, or no photo and an image document
\* that has a file id
HasImageFile(u) == u.photo = "sizes" \/ (u.photo = "absent" /\ u.document = "image")

ImageFirst(t) ==
    /\ h[t].file_id # NoFile
    /\ ~TextPath(t)
    /\ ("processing" \in Kinds(t) \/ h[t].pc = "notify")
    /\ (Done(t) => ImagePathEnd(t))

NoAmount(d) ==
    \/ "amount" \notin DOMAIN d
    \/ d.amount = PyNone
    \/ d.amount.t \in {"int", "float"} /\ d.amount.n = 0

\* the last message sent for the event of task t is of the given kind, to
\* the chat of the message
LastSent(t, kind) ==
    /\ h[t].sent # <<>>
    /\ h[t].sent[Len(h[t].sent)].kind = kind
    /\ h[t].sent[Len(h[t].sent)].chat = h[t].update.chat_id

\* C12: when the image parse result has no usable amount (null, missing or
\* zero) the event ends with the "could not extract amount" message, and
\* when the text extractor finds nothing in the text it ends with the "could
\* not understand" message; either way the event is acknowledged once and no
\* transaction is persisted.
C12_NoAmountIsReported ==
    \A t \in Tasks :
        Done(t) =>
            /\ (h[t].file_id # NoFile /\ Returned(t) /\ NoAmount(g[t].result) =>
                    LastSent(t, "no_amount") /\ RowsOf(t) = {} /\ h[t].acks = 1)
            /\ (h[t].file_id = NoFile /\ h[t].text.s # <<>>
                   /\ TextTransactionParser_parse(h[t].text.s).none =>
                    LastSent(t, "not_understood") /\ RowsOf(t) = {} /\ h[t].acks = 1)

\* C12 witness: an image result whose amount is zero was reported
C12_Witness ==
    \E t \in Tasks :
        /\ Done(t) /\ Returned(t) /\ g[t].result.amount = PyInt(0)
        /\ LastSent(t, "no_amount")

\* the download of the image of the event of task t has returned no bytes
DownloadFailed(t) ==
    /\ IsEvent(t) /\ h[t].file_id # NoFile /\ h[t].image_bytes = NoBytes
    /\ h[t].pc \notin {"notify", "download"}

\* C13: after a failed download (no bytes) the handler sends the download
\* failure message and returns the acknowledgment: the parser is neither
\* constructed nor called for the event, the provider is not called, and no
\* transaction is persisted.
C13_DownloadFailureEnds ==
    \A t \in Tasks :
        DownloadFailed(t) =>
            /\ h[t].pc \in {"send_download_failed", "done"}
            /\ g[t] = IdleCall
            /\ RowsOf(t) = {}
            /\ h[t].raised_at = ""
            /\ (Done(t) => LastSent(t, "download_failed") /\ h[t].acks = 1)

\* C13 witness: an event ended by the download failure message
C13_Witness ==
    \E t \in Tasks : Done(t) /\ DownloadFailed(t) /\ "download_failed" \in Kinds(t)

\* C14 (as claimed): with the unimplemented parser kind (LOCAL) configured,
\* the selection fails before any event is processed: no event gets its
\* processing notice sent and its image downloaded and only then meets the
\* selection error.
C14_LocalFailsAtSelection ==
    settings.parser_type = "LOCAL" =>
        \A t \in Tasks :
            IsEvent(t) =>
                ~(/\ h[t].raised_at = "get_parser"
                  /\ "processing" \in Kinds(t)
                  /\ h[t].image_bytes # NoBytes)

\* C15 (as claimed): over all the events one process handles, at most one
\* parser instance is constructed; further image events reuse it.
C15_OneParserInstance == parsers <= 1

\* the update carries no photo and no document declared an image
NoImage(u) == u.photo = "absent" /\ u.document \notin {"image", "image_nofile"}

\* the steps of the image path, the parser construction and the provider calls
AIPositions ==
    {"notify", "download", "get_parser", "parse_open", "gen_call", "gen_sleep",
     "parse_response", "validate", "send_download_failed", "send_no_amount"}

\* C16: for an event without an image, whatever parser kind is configured,
\* the handler constructs no parser and calls no provider: no step of the
\* image path is taken, the parser call of the task stays untouched, and a
\* non-empty text is parsed by the deterministic extractor.
C16_TextNeverUsesAI ==
    \A t \in Tasks :
        (IsEvent(t) /\ NoImage(h[t].update)) =>
            /\ g[t] = IdleCall
            /\ h[t].pc \notin AIPositions
            /\ h[t].raised_at # "get_parser"
            /\ (Classified(t) /\ h[t].update.text.present /\ h[t].update.text.s # <<>> =>
                    TextPath(t))

\* C16 witness: with the AI parser configured, a text event was handled by
\* the text extractor
C16_Witness ==
    \E t \in Tasks :
        /\ Done(t) /\ NoImage(h[t].update) /\ TextPath(t)
        /\ settings = Settings("GEMINI", TRUE)

C18_FailureLeavesTransactions ==
    /\ \A i \in 1..Len(transactions) :
          transactions[i].id = i /\ transactions[i].status = "PENDING"
    /\ \A t \in Tasks :
          IsEvent(t) =>
              /\ Cardinality(RowsOf(t)) <= 1
              /\ (Done(t) /\ Kinds(t) \cap FailureKinds # {} => RowsOf(t) = {})

\* task t holds the result of a call of the text parser on a text of the form
ParsedForm(t) == h[t].pc \in {"tp_done", "tp_none"} /\ h[t].form # <<>>

\* C19 (as claimed): for every text of the form
\* "<prefix>? <digits>(rs|rupees|inr|₹)? <connector>? <word>(<rest>)?" the
\* parser returns the digits as amount, the word as category, and the rest as
\* merchant, or null when there is no rest.
C19_FormProperty ==
    \A t \in Tasks :
        ParsedForm(t) =>
            LET f == h[t].form[1]
            IN /\ h[t].pc = "tp_done"
               /\ h[t].parsed.amount = PyFloat(DigitsValue(f.digits), 0)
               /\ h[t].parsed.category = PyStr(f.word)
               /\ h[t].parsed.merchant = (IF f.rest = <<>> THEN PyNone ELSE PyStr(f.rest))

Literal1 == <<"a", "d", "d", " ", "1", "5", "r", "s", " ", "a", "s", " ", "c", "o", "f", "f", "e", "e">>

Literal2 == <<"s", "p", "e", "n", "t", " ", "5", "0", " ", "o", "n", " ", "f", "o", "o", "d">>

Literal3 == <<"4", "2">>

\* the result with the given amount (a whole number) and category, in INR,
\* without merchant and date
LiteralResult(amount, category) ==
    [amount |-> PyFloat(amount, 0), currency |-> INR, merchant |-> PyNone,
     category |-> PyStr(category), date |-> PyNone]

\* C20: the parser gives, for "add 15rs as coffee", amount 15.0, currency
\* INR, category "coffee" and no merchant; for "spent 50 on food", amount
\* 50.0, currency INR, category "food" and no merchant; for the bare number
\* "42", amount 42.0, category "Uncategorized" and no merchant.
C20_LiteralCases ==
    \A t \in Tasks :
        (h[t].pc \in {"tp_done", "tp_none"} /\ h[t].text.s \in {Literal1, Literal2, Literal3}) =>
            /\ h[t].pc = "tp_done"
            /\ (h[t].text.s = Literal1 => h[t].parsed = LiteralResult(15, <<"c", "o", "f", "f", "e", "e">>))
            /\ (h[t].text.s = Literal2 => h[t].parsed = LiteralResult(50, <<"f", "o", "o", "d">>))
            /\ (h[t].text.s = Literal3 =>
                    h[t].parsed = LiteralResult(42, <<"U", "n", "c", "a", "t", "e", "g", "o", "r", "i", "z", "e", "d">>))

\* C20 witness: the three literal texts have been parsed; here the first
C20_Witness ==
    \E t \in Tasks :
        /\ h[t].pc = "tp_done" /\ h[t].text.s = Literal1
        /\ h[t].parsed.category = PyStr(<<"c", "o", "f", "f", "e", "e">>)

\* task t holds the result of a call of the text parser
ParsedText(t) == h[t].pc \in {"tp_done", "tp_none"}

HasDigit(s) == \E i \in 1..Len(s) : s[i] \in Digit

\* C21: parse returns None exactly when the input holds no digit (an empty
\* or blank input holds none); every input with a digit gives a result with
\* an amount that is not null and a category that is a non-empty string.
C21_NoneIffNoDigit ==
    \A t \in Tasks :
        ParsedText(t) =>
            /\ (h[t].pc = "tp_none") = ~HasDigit(h[t].text.s)
            /\ (h[t].pc = "tp_done" =>
                    /\ h[t].parsed.amount.t = "float"
                    /\ h[t].parsed.category.t = "str"
                    /\ h[t].parsed.category.s # <<>>)

\* C21 witness: a text of letters only has been parsed to None
C21_Witness ==
    \E t \in Tasks :
        /\ h[t].pc = "tp_none"
        /\ h[t].text.s = <<"t", "e", "a", " ", "b", "a", "r">>

\* the verb p is a whole leading token of s
LeadingToken(s, p) ==
    StartsWith(s, p) /\ (Len(s) = Len(p) \/ s[Len(p) + 1] \in WS)

\* s without its leading verb token, for every listed verb that is one
WithoutOneVerb(s) ==
    {Strip(From(s, Len(prefixes[k]))) : k \in {j \in 1..Len(prefixes) : LeadingToken(s, prefixes[j])}}

\* C22 (as claimed): the parser strips at most one leading verb, and only a
\* verb that is a whole leading token, so the text it extracts from is the
\* normalized input or that input without its one leading verb; and it strips
\* at most one leading connector, so from "7 as for tea" the second connector
\* "for" stays and becomes the category, with "tea" as merchant.
C22_AtMostOneStripped ==
    \A t \in Tasks :
        ParsedText(t) =>
            LET norm == Lower(Strip(h[t].text.s))
            IN /\ StripPrefixes(norm, 1) \in {norm} \cup WithoutOneVerb(norm)
               /\ (norm = <<"7", " ", "a", "s", " ", "f", "o", "r", " ", "t", "e", "a">> =>
                      /\ h[t].parsed.category = PyStr(<<"f", "o", "r">>)
                      /\ h[t].parsed.merchant = PyStr(<<"t", "e", "a">>))

\* the lines are an opening fence, with or without a language tag, one JSON
\* object, and a closing fence
FencedObject(lines) ==
    /\ Len(lines) = 3
    /\ IsFence(lines[1])
    /\ lines[2].line = "doc" /\ lines[2].kind = "object"
    /\ lines[3].line = "fence"

\* the call of task t returned after the provider answered
Answered(t) ==
    /\ Returned(t)
    /\ g[t].log # <<>>
    /\ g[t].log[Len(g[t].log)].out = "ok"

\* C23: when the provider answers a JSON object wrapped in Markdown code
\* fences, parse and parse_text return the fields of that object (currency INR
\* and null for the keys it lacks), not the all-null default.
C23_FencesAreStripped ==
    \A t \in Tasks :
        (Answered(t) /\ FencedObject(get_response_text(g[t].response))) =>
            LET obj == get_response_text(g[t].response)[2].obj
                r == g[t].result
            IN /\ DOMAIN r = {"merchant", "amount", "currency", "date", "category"}
               /\ \A k \in DOMAIN r :
                    r[k] = IF k \in DOMAIN obj THEN obj[k]
                           ELSE IF k = "currency" THEN INR ELSE PyNone

\* C23 witness: a fenced object with a language tag gave its amount
C23_Witness ==
    \E t \in Tasks :
        /\ Answered(t)
        /\ FencedObject(get_response_text(g[t].response))
        /\ get_response_text(g[t].response)[1] = FenceLangLine
        /\ g[t].result.amount = PyInt(20)

\* C24 (as claimed): every result returned by parse and parse_text has a
\* currency that is a string, and it is INR whenever the JSON object of the
\* provider has no currency key or has null under it.
C24_CurrencyNeverNull ==
    \A t \in Tasks :
        Returned(t) =>
            /\ g[t].result.currency.t = "str"
            /\ (Answered(t) /\ IsObject(g[t].response) =>
                    LET obj == g[t].response.text[1].obj
                    IN DictGet(obj, "currency", PyNone) = PyNone =>
                           g[t].result.currency = INR)

\* a wait given in tenths of a second, rounded up to whole seconds
CeilSeconds(tenths) == (tenths + 9) \div 10

\* C25 (as claimed): the delay waited before the retry is the wait N of the
\* "retry in N s" hint rounded up to whole seconds (a whole N unchanged) and
\* capped at 60; it is 60 when the message has no hint; it is always between
\* 0 and 60 seconds.
C25_DelayIsHintRoundedUp ==
    \A t \in Tasks :
        h[t].pc = "gen_sleep" =>
            /\ g[t].delay \in 0..RETRY_DELAY_MAX
            /\ g[t].delay = (IF g[t].err.hint >= 0
                             THEN Min2(CeilSeconds(g[t].err.hint), RETRY_DELAY_MAX)
                             ELSE RETRY_DELAY_MAX)

TwoNumbers == <<"1", "5", " ", "t", "e", "a", " ", "2", "0", "r", "s">>

SymbolSecond == <<"7", " ", "t", "e", "a", " ", "₹", "2", "0">>

MarkerInside == <<"t", "e", "a", "7", "r", "s", "b", "a", "r">>

\* the parser gave, for the text s, the amount (a whole number), the category
\* and the merchant
ParsedAs(t, s, amount, category, merchant) ==
    (ParsedText(t) /\ h[t].text.s = s) =>
        /\ h[t].pc = "tp_done"
        /\ h[t].parsed.amount = PyFloat(amount, 0)
        /\ h[t].parsed.category = PyStr(category)
        /\ h[t].parsed.merchant = merchant

\* C26: the amount patterns are tried in their fixed order and the first one
\* that matches anywhere gives the amount, even when a later pattern matches
\* earlier in the text: "15 tea 20rs" gives 20 by the first pattern (number
\* and marker) and "7 tea ₹20" gives 20 by the second (symbol and number),
\* not the bare number in front; the residual is the text before the match
\* joined to the text after it: "15 tea" and "7 tea" (category the number,
\* merchant "tea"), and "teabar" for "tea7rsbar".
C26_FirstPatternWins ==
    \A t \in Tasks :
        /\ ParsedAs(t, TwoNumbers, 20, <<"1", "5">>, PyStr(<<"t", "e", "a">>))
        /\ ParsedAs(t, SymbolSecond, 20, <<"7">>, PyStr(<<"t", "e", "a">>))
        /\ ParsedAs(t, MarkerInside, 7, <<"t", "e", "a", "b", "a", "r">>, PyNone)

\* C26 witness: the text with a bare number before a number with a marker
\* has been parsed, and the amount is the second number
C26_Witness ==
    \E t \in Tasks :
        /\ h[t].pc = "tp_done" /\ h[t].text.s = TwoNumbers
        /\ h[t].parsed.amount = PyFloat(20, 0)

\* the terminal messages (hint, failure or confirmation) sent for task t
Terminals(t) == {i \in 1..Len(h[t].sent) : h[t].sent[i].kind # "processing"}

\* C27 (as claimed): for each event the confirmation is sent if and only if
\* a transaction was persisted for it, and after the commit; no event has both
\* a confirmation and a failure message; an event has at most one terminal
\* message and at most two messages in all.
C27_ConfirmationIffPersisted ==
    \A t \in Tasks :
        IsEvent(t) =>
            /\ ("confirmation" \in Kinds(t) => RowsOf(t) # {})
            /\ (Done(t) => ("confirmation" \in Kinds(t)) = (RowsOf(t) # {}))
            /\ ~("confirmation" \in Kinds(t) /\ Kinds(t) \cap FailureKinds # {})
            /\ Cardinality(Terminals(t)) <= 1
            /\ Len(h[t].sent) <= 2

\* the telegram_id of the sender of the event of task t
SenderId(t) == Str(PyInt(h[t].update.from_id))

\* C28: whatever the interleaving of the handlers, also of several first
\* events of one sender, there is at most one user per sender id, and every
\* transaction created for an event is owned by the user whose telegram_id is
\* the sender id of that event.
C28_OneUserPerSender ==
    /\ \A i, j \in 1..Len(users) : users[i].telegram_id = users[j].telegram_id => i = j
    /\ \A t \in Tasks :
          IsEvent(t) =>
              \A i \in RowsOf(t) :
                  \E k \in 1..Len(users) :
                      /\ users[k].id = transactions[i].user_id
                      /\ users[k].telegram_id = SenderId(t)

\* C28 witness: while the handler of a first event of a sender is suspended, a
\* second event of that sender and an event of another sender have been
\* handled: there are two users, and the second event has its transaction
C28_Witness ==
    \E t, x \in Tasks :
        /\ t # x
        /\ Suspended(t) /\ Done(x)
        /\ h[t].update.from_id = h[x].update.from_id
        /\ RowsOf(x) # {}
        /\ Len(users) = 1

\* C29: whatever the sequence of login and verify requests, each issued row,
\* presented as its token or as its code, is exchanged for a JWT at most once
\* and is gone from the table afterwards; a JWT is only given before the row
\* expires; and its subject is the user the row was issued to (when two live
\* rows carry the presented code, the row exchanged is one of them).
C29_TokenIsSingleUse ==
    /\ \A a, b \in 1..Len(jwts) : jwts[a].row = jwts[b].row => a = b
    /\ \A a \in 1..Len(jwts) :
          LET r == login_tokens[jwts[a].row]
          IN /\ r.deleted
             /\ jwts[a].at < r.expires_at
             /\ jwts[a].presented \in {r.token, r.code}
             /\ jwts[a].sub = r.user_id

\* C29 witness: a row was exchanged through its code and, still unexpired, is
\* refused when its token is presented afterwards
C29_Witness ==
    /\ Len(jwts) = 1
    /\ Len(login_tokens) = 1
    /\ jwts[1].presented = login_tokens[1].code
    /\ clock < login_tokens[1].expires_at
    /\ reply = 401

\* C30 (as claimed): whatever the create, update and delete requests, a
\* category that has a parent has a parent that is top-level, and no update
\* changes the parent of a category: it is the one it was created with.
C30_OneLevelOnly ==
    \A i \in 1..Len(categories) :
        /\ (categories[i].parent_id # 0 =>
               \E p \in 1..Len(categories) :
                   /\ categories[p].id = categories[i].parent_id
                   /\ categories[p].parent_id = 0)
        /\ categories[i].parent_id = categories[i].under
====
